---------------------------- MODULE Spec2Model ----------------------------
(***************************************************************************)
(* log4tiny, src/format_parser.hpp: the printf-style format scanner.       *)
(*                                                                         *)
(* A std::string_view is a sequence of characters (one-character strings). *)
(* A std::optional<std::string_view> returned by a consumer is a record    *)
(* [st, sv, past_end]: st = "some" (a value, sv), "none" (std::nullopt),   *)
(* "throw" (std::out_of_range left the consumer) or "fault" (the           *)
(* dereference of the view's end did not yield a character at all).        *)
(* past_end records whether the consumer dereferenced format.cbegin() of   *)
(* an empty view, which is undefined behaviour: the value read there is    *)
(* the parameter pe of every consumer, one of PastEnd.                     *)
(***************************************************************************)
EXTENDS Integers, Sequences, FiniteSets, TLC

\* ------------------------------------------------------------ characters

NUL == "NUL"

\* Outcome of dereferencing the end of a view that is not a character.
Fault == "FAULT"

\* The character codes of the execution character set that comparisons use.
ascii(c) ==
  CASE c = NUL -> 0
    [] c = " " -> 32
    [] c = "#" -> 35
    [] c = "%" -> 37
    [] c = "*" -> 42
    [] c = "+" -> 43
    [] c = "," -> 44
    [] c = "-" -> 45
    [] c = "." -> 46
    [] c = "/" -> 47
    [] c = "0" -> 48
    [] c = "1" -> 49
    [] c = "5" -> 53
    [] c = "9" -> 57
    [] c = ":" -> 58
    [] c = "A" -> 65
    [] c = "E" -> 69
    [] c = "F" -> 70
    [] c = "G" -> 71
    [] c = "H" -> 72
    [] c = "L" -> 76
    [] c = "X" -> 88
    [] c = "a" -> 97
    [] c = "c" -> 99
    [] c = "d" -> 100
    [] c = "e" -> 101
    [] c = "f" -> 102
    [] c = "g" -> 103
    [] c = "h" -> 104
    [] c = "i" -> 105
    [] c = "j" -> 106
    [] c = "l" -> 108
    [] c = "n" -> 110
    [] c = "o" -> 111
    [] c = "p" -> 112
    [] c = "q" -> 113
    [] c = "r" -> 114
    [] c = "s" -> 115
    [] c = "t" -> 116
    [] c = "u" -> 117
    [] c = "x" -> 120
    [] c = "y" -> 121
    [] c = "z" -> 122

Chars ==
  {" ", "#", "%", "*", "+", ",", "-", ".", "/", "0", "1", "5", "9",
   ":", "A", "E", "F", "G", "H", "L", "X", "a", "c", "d", "e", "f",
   "g", "h", "i", "j", "l", "n", "o", "p", "q", "r", "s", "t", "u",
   "x", "y", "z"}

\* ------------------------------------------------------ std::string_view

\* std::optional<std::string_view> holding a value.
Some(sv) == [st |-> "some", sv |-> sv, past_end |-> FALSE]

\* std::nullopt.
Nullopt == [st |-> "none", sv |-> <<>>, past_end |-> FALSE]

\* std::out_of_range thrown by string_view::substr(pos) with pos > size().
OutOfRange == [st |-> "throw", sv |-> <<>>, past_end |-> FALSE]

\* The read of *format.cbegin() did not return.
Faulted == [st |-> "fault", sv |-> <<>>, past_end |-> TRUE]

\* string_view::substr(pos): throws when pos > size().
substr(format, pos) ==
  IF pos > Len(format) THEN OutOfRange
  ELSE Some(SubSeq(format, pos + 1, Len(format)))

\* string_view::remove_prefix(n).
remove_prefix(sv, n) == SubSeq(sv, n + 1, Len(sv))

\* string_view::starts_with(prefix).
starts_with(sv, prefix) ==
  Len(prefix) <= Len(sv) /\ SubSeq(sv, 1, Len(prefix)) = prefix

\* *format.cbegin(): the first character, or, on an empty view, whatever
\* lies past the end (pe).
Deref(format, pe) == IF format # <<>> THEN format[1] ELSE pe

\* r, with the note that the consumer read *format.cbegin() of `format`.
Read(r, format) == [r EXCEPT !.past_end = (format = <<>>)]

\* --------------------------------------------------- character consumers

consume_character(format, character, pe) ==
  IF Deref(format, pe) = Fault THEN Faulted
  ELSE IF Deref(format, pe) = character THEN Read(substr(format, 1), format)
  ELSE Read(Nullopt, format)

consume_character_from_range(format, first_character, last_character, pe) ==
  IF Deref(format, pe) = Fault THEN Faulted
  ELSE IF /\ ascii(Deref(format, pe)) >= ascii(first_character)
          /\ ascii(Deref(format, pe)) <= ascii(last_character)
       THEN Read(substr(format, 1), format)
  ELSE Read(Nullopt, format)

\* The parameter-pack overload; characters is the pack, in order.
consume_character_from_set(format, characters, pe) ==
  IF Deref(format, pe) = Fault THEN Faulted
  ELSE IF \E i \in 1..Len(characters) : Deref(format, pe) = characters[i]
       THEN Read(substr(format, 1), format)
  ELSE Read(Nullopt, format)

\* The container overload: std::ranges::find over characters.
consume_character_from_container(format, characters, pe) ==
  IF Deref(format, pe) = Fault THEN Faulted
  ELSE IF \E i \in 1..Len(characters) : characters[i] = Deref(format, pe)
       THEN Read(substr(format, 1), format)
  ELSE Read(Nullopt, format)

\* format.find(string_to_consume) == 0, then substr(length).
consume_string(format, string_to_consume) ==
  IF starts_with(format, string_to_consume)
  THEN substr(format, Len(string_to_consume))
  ELSE Nullopt

\* consume_repeatedly instantiated with consume_character_from_range, its
\* only use.
RECURSIVE consume_repeatedly(_, _, _, _)
consume_repeatedly(format, first_character, last_character, pe) ==
  LET return_value ==
        consume_character_from_range(format, first_character,
                                     last_character, pe)
  IN  IF return_value.st \in {"throw", "fault"} THEN return_value
      ELSE IF return_value.st = "none" \/ return_value.sv = format
           THEN Read(Some(format), format)
      ELSE consume_repeatedly(return_value.sv, first_character,
                              last_character, pe)

\* ---------------------------------------------------------- type matchers

\* matcher::PlaceholderType{}: the default-constructed variant, which the
\* specification calls Unconstrained.
DefaultPlaceholderType == "Unconstrained"

\* An empty std::optional<matcher::PlaceholderType>.
NoMatcher == "nullopt"

\* ----------------------------------------------------- grammar sub-parsers

consume_start_character(format, pe) == consume_character(format, "%", pe)

\* Mutant: the space is not among the flag characters.
consume_flags_without_space(format, pe) ==
  LET substring ==
        consume_character_from_set(format, <<"+", "-", "#", "0">>, pe)
  IN  IF substring.st = "none" THEN Read(Some(format), format)
      ELSE substring

\* Mutant: the flag consumer is repeated until no flag character is left.
RECURSIVE consume_flags_repeatedly(_, _)
consume_flags_repeatedly(format, pe) ==
  LET substring ==
        consume_character_from_set(format, <<"+", "-", " ", "#", "0">>, pe)
  IN  IF substring.st = "none" THEN Read(Some(format), format)
      ELSE IF substring.st = "some"
      THEN consume_flags_repeatedly(substring.sv, pe)
      ELSE substring

\* Returns the view after at most one flag character (value_or(format)).
consume_flags_if_any(format, pe) ==
  LET substring ==
        consume_character_from_set(format, <<"+", "-", " ", "#", "0">>, pe)
  IN  IF substring.st = "none" THEN Read(Some(format), format)
      ELSE substring

\* ReturnValue{substring, width_type_matcher}; st carries an exception.
consume_width_if_any(format, pe) ==
  LET additional_argument_substring == consume_character(format, "*", pe)
      substring == consume_repeatedly(format, "0", "9", pe)
  IN  IF additional_argument_substring.st \in {"throw", "fault"}
      THEN [st |-> additional_argument_substring.st, substring |-> <<>>,
            width_type_matcher |-> NoMatcher, past_end |-> TRUE]
      ELSE IF additional_argument_substring.st = "some"
      THEN [st |-> "ok", substring |-> additional_argument_substring.sv,
            width_type_matcher |-> "UnsignedInt",
            past_end |-> additional_argument_substring.past_end]
      ELSE IF substring.st \in {"throw", "fault"}
      THEN [st |-> substring.st, substring |-> <<>>,
            width_type_matcher |-> NoMatcher, past_end |-> TRUE]
      ELSE IF substring.st = "some"
      THEN [st |-> "ok", substring |-> substring.sv,
            width_type_matcher |-> NoMatcher,
            past_end |-> substring.past_end]
      ELSE [st |-> "ok", substring |-> format,
            width_type_matcher |-> NoMatcher,
            past_end |-> substring.past_end]

\* ReturnValue{substring, precision_type_matcher}; st carries an exception.
consume_precision_if_any(format, pe) ==
  LET substring_without_precision_specifier ==
        consume_character(format, ".", pe)
      additional_argument_substring ==
        consume_character(substring_without_precision_specifier.sv, "*", pe)
      substring ==
        consume_repeatedly(substring_without_precision_specifier.sv,
                           "0", "9", pe)
  IN  IF substring_without_precision_specifier.st \in {"throw", "fault"}
      THEN [st |-> substring_without_precision_specifier.st,
            substring |-> <<>>, precision_type_matcher |-> NoMatcher,
            past_end |-> TRUE]
      ELSE IF substring_without_precision_specifier.st = "none"
      THEN [st |-> "ok", substring |-> format,
            precision_type_matcher |-> NoMatcher,
            past_end |-> substring_without_precision_specifier.past_end]
      ELSE IF additional_argument_substring.st \in {"throw", "fault"}
      THEN [st |-> additional_argument_substring.st, substring |-> <<>>,
            precision_type_matcher |-> NoMatcher, past_end |-> TRUE]
      ELSE IF additional_argument_substring.st = "some"
      THEN [st |-> "ok", substring |-> additional_argument_substring.sv,
            precision_type_matcher |-> "UnsignedInt",
            past_end |-> additional_argument_substring.past_end]
      ELSE IF substring.st \in {"throw", "fault"}
      THEN [st |-> substring.st, substring |-> <<>>,
            precision_type_matcher |-> NoMatcher, past_end |-> TRUE]
      ELSE IF substring.st = "some"
      THEN [st |-> "ok", substring |-> substring.sv,
            precision_type_matcher |-> NoMatcher,
            past_end |-> substring.past_end]
      ELSE [st |-> "ok", substring |-> format,
            precision_type_matcher |-> NoMatcher,
            past_end |-> substring.past_end]

\* enum class Specifier, in declaration order.
Specifier ==
  <<"d", "i", "u", "o", "x", "X", "f", "F", "e", "E", "g", "G", "a", "A",
    "c", "s", "p", "n">>

\* The allowed-specifier lists of consume_length_if_any, as written there.
IntegerSpecifiers == <<"d", "i", "u", "o", "x", "X", "n">>

LongSpecifiers == <<"d", "i", "u", "o", "x", "X", "c", "s", "n">>

LongDoubleSpecifiers == <<"f", "F", "e", "E", "g", "G", "a", "A">>

\* Mutant: the single "l" and "h" are tried before "ll" and "hh".
consume_length_shortest_first(format, pe) ==
  LET l == consume_character(format, "l", pe)
      L == consume_character(format, "L", pe)
      hjzt == consume_character_from_set(format, <<"h", "j", "z", "t">>, pe)
      Raise(r) == [st |-> r.st, substring |-> <<>>,
                   allowed_specifiers |-> <<>>, past_end |-> TRUE]
  IN  IF l.st \in {"throw", "fault"} THEN Raise(l)
      ELSE IF l.st = "some"
      THEN [st |-> "ok", substring |-> l.sv,
            allowed_specifiers |-> LongSpecifiers, past_end |-> FALSE]
      ELSE IF L.st \in {"throw", "fault"} THEN Raise(L)
      ELSE IF L.st = "some"
      THEN [st |-> "ok", substring |-> L.sv,
            allowed_specifiers |-> LongDoubleSpecifiers, past_end |-> FALSE]
      ELSE IF hjzt.st \in {"throw", "fault"} THEN Raise(hjzt)
      ELSE IF hjzt.st = "some"
      THEN [st |-> "ok", substring |-> hjzt.sv,
            allowed_specifiers |-> IntegerSpecifiers, past_end |-> FALSE]
      ELSE [st |-> "ok", substring |-> format,
            allowed_specifiers |-> Specifier, past_end |-> hjzt.past_end]

\* ReturnValue{substring, allowed_specifiers}; st carries an exception.
consume_length_if_any(format, pe) ==
  LET hh == consume_string(format, <<"h", "h">>)
      ll == consume_string(format, <<"l", "l">>)
      l == consume_character(format, "l", pe)
      L == consume_character(format, "L", pe)
      hjzt == consume_character_from_set(format, <<"h", "j", "z", "t">>, pe)
      Raise(r) == [st |-> r.st, substring |-> <<>>,
                   allowed_specifiers |-> <<>>, past_end |-> TRUE]
  IN  IF hh.st = "some"
      THEN [st |-> "ok", substring |-> hh.sv,
            allowed_specifiers |-> IntegerSpecifiers, past_end |-> FALSE]
      ELSE IF ll.st = "some"
      THEN [st |-> "ok", substring |-> ll.sv,
            allowed_specifiers |-> IntegerSpecifiers, past_end |-> FALSE]
      ELSE IF l.st \in {"throw", "fault"} THEN Raise(l)
      ELSE IF l.st = "some"
      THEN [st |-> "ok", substring |-> l.sv,
            allowed_specifiers |-> LongSpecifiers, past_end |-> FALSE]
      ELSE IF L.st \in {"throw", "fault"} THEN Raise(L)
      ELSE IF L.st = "some"
      THEN [st |-> "ok", substring |-> L.sv,
            allowed_specifiers |-> LongDoubleSpecifiers, past_end |-> FALSE]
      ELSE IF hjzt.st \in {"throw", "fault"} THEN Raise(hjzt)
      ELSE IF hjzt.st = "some"
      THEN [st |-> "ok", substring |-> hjzt.sv,
            allowed_specifiers |-> IntegerSpecifiers, past_end |-> FALSE]
      ELSE [st |-> "ok", substring |-> format,
            allowed_specifiers |-> Specifier, past_end |-> hjzt.past_end]

\* static_cast<char> of every Specifier, in order.
specifiers_to_characters(specifiers) ==
  [i \in 1..Len(specifiers) |-> specifiers[i]]

\* Mutant: u, o, x and X fall into the case of d and i.
specifier_all_integers_signed(specifier) ==
  CASE specifier \in {"d", "i", "u", "o", "x", "X"} -> "SignedInt"
    [] specifier \in {"f", "F", "e", "E", "g", "G", "a", "A"} -> "Floating"
    [] specifier = "c" -> "Char"
    [] specifier = "s" -> "String"
    [] specifier = "p" -> "Pointer"
    [] OTHER -> DefaultPlaceholderType

specifier_to_placeholder_type_matcher(specifier) ==
  CASE specifier \in {"d", "i"} -> "SignedInt"
    [] specifier \in {"u", "o", "x", "X"} -> "UnsignedInt"
    [] specifier \in {"f", "F", "e", "E", "g", "G", "a", "A"} -> "Floating"
    [] specifier = "c" -> "Char"
    [] specifier = "s" -> "String"
    [] specifier = "p" -> "Pointer"
    [] OTHER -> DefaultPlaceholderType

\* Result{substring, placeholder_type_matcher}; substring is the optional.
consume_specifier(format, allowed_specifiers, pe) ==
  LET specifier_characters == specifiers_to_characters(allowed_specifiers)
      consumed ==
        consume_character_from_container(format, specifier_characters, pe)
  IN  IF consumed.st \in {"throw", "fault"}
      THEN [substring |-> consumed,
            placeholder_type_matcher |-> DefaultPlaceholderType]
      ELSE IF consumed.st = "some"
      THEN [substring |-> Read(substr(format, 1), format),
            placeholder_type_matcher |->
              specifier_to_placeholder_type_matcher(format[1])]
      ELSE [substring |-> consumed,
            placeholder_type_matcher |-> DefaultPlaceholderType]

\* The optional matcher of a width or precision, as the elements that
\* emplace_back adds for it.
Emplaced(type_matcher) ==
  IF type_matcher = NoMatcher THEN <<>> ELSE <<type_matcher>>

\* How the try block of parse_first_placeholder ends. st is "ok" (the
\* specifier was consumed), "no_start", "no_specifier", "throw" (an
\* exception reached the catch) or "fault".
Stop(st, matchers, past_end) ==
  [st |-> st, placeholder_type_matchers |-> matchers,
   post_specifier_substring |-> <<>>, past_end |-> past_end]

\* Lines 262-268: the answer of consume_specifier.
with_specifier(specifier, placeholder_type_matchers) ==
  IF specifier.substring.st \in {"throw", "fault"}
  THEN Stop(specifier.substring.st, placeholder_type_matchers, TRUE)
  ELSE IF specifier.substring.st = "none"
  THEN Stop("no_specifier", placeholder_type_matchers,
            specifier.substring.past_end)
  ELSE [st |-> "ok",
        placeholder_type_matchers |->
          Append(placeholder_type_matchers,
                 specifier.placeholder_type_matcher),
        post_specifier_substring |-> specifier.substring.sv,
        past_end |-> FALSE]

\* Lines 260-263: the answer of consume_length_if_any, then the specifier.
with_length(length, placeholder_type_matchers, pe) ==
  IF length.st \in {"throw", "fault"}
  THEN Stop(length.st, placeholder_type_matchers, TRUE)
  ELSE with_specifier(
         consume_specifier(length.substring, length.allowed_specifiers, pe),
         placeholder_type_matchers)

\* Lines 255-261: the answer of consume_precision_if_any, then the length.
with_precision(precision, placeholder_type_matchers, pe) ==
  IF precision.st \in {"throw", "fault"}
  THEN Stop(precision.st, placeholder_type_matchers, TRUE)
  ELSE with_length(
         consume_length_if_any(precision.substring, pe),
         placeholder_type_matchers
           \o Emplaced(precision.precision_type_matcher),
         pe)

\* Lines 251-256: the answer of consume_width_if_any, then the precision.
with_width(width, pe) ==
  IF width.st \in {"throw", "fault"} THEN Stop(width.st, <<>>, TRUE)
  ELSE with_precision(consume_precision_if_any(width.substring, pe),
                      Emplaced(width.width_type_matcher), pe)

\* Lines 250-251: the answer of consume_flags_if_any, then the width.
with_flags(post_flags_substring, pe) ==
  IF post_flags_substring.st \in {"throw", "fault"}
  THEN Stop(post_flags_substring.st, <<>>, TRUE)
  ELSE with_width(consume_width_if_any(post_flags_substring.sv, pe), pe)

\* Lines 248-250: the answer of consume_start_character, then the flags.
with_start(post_start_substring, pe) ==
  IF post_start_substring.st \in {"throw", "fault"}
  THEN Stop(post_start_substring.st, <<>>, TRUE)
  ELSE IF post_start_substring.st = "none"
  THEN Stop("no_start", <<>>, post_start_substring.past_end)
  ELSE with_flags(consume_flags_if_any(post_start_substring.sv, pe), pe)

\* The try block of parse_first_placeholder: the five stages in order.
placeholder_stages(format, pe) ==
  with_start(consume_start_character(format, pe), pe)

\* Mutant: a failed parse returns the matchers collected before it failed.
parse_first_placeholder_leaking(format, pe) ==
  LET stages == placeholder_stages(format, pe)
  IN  IF stages.st = "ok"
      THEN [is_valid |-> TRUE,
            type_matchers |-> stages.placeholder_type_matchers,
            placeholder_length |->
              Len(format) - Len(stages.post_specifier_substring),
            fault |-> FALSE, past_end |-> stages.past_end]
      ELSE [is_valid |-> FALSE,
            type_matchers |-> stages.placeholder_type_matchers,
            placeholder_length |-> 0,
            fault |-> stages.st = "fault", past_end |-> stages.past_end]

\* ReturnValue{is_valid, type_matchers, placeholder_length}; fault: the
\* call did not return; past_end: a consumer read the end of the view.
parse_first_placeholder(format, pe) ==
  LET stages == placeholder_stages(format, pe)
  IN  IF stages.st = "ok"
      THEN [is_valid |-> TRUE,
            type_matchers |-> stages.placeholder_type_matchers,
            placeholder_length |->
              Len(format) - Len(stages.post_specifier_substring),
            fault |-> FALSE, past_end |-> stages.past_end]
      ELSE [is_valid |-> FALSE, type_matchers |-> <<>>,
            placeholder_length |-> 0,
            fault |-> stages.st = "fault", past_end |-> stages.past_end]

skip_escaped_starting_character(format) ==
  IF starts_with(format, <<"%", "%">>) THEN substr(format, 2).sv
  ELSE format

\* Mutant: a failed parse leaves the view where it is.
advance_only_when_valid(substring, p) ==
  IF p.is_valid THEN remove_prefix(substring, p.placeholder_length)
  ELSE substring

\* One pass of the loop body of parse_format_to_placeholder_matchers, given
\* the parser's answer p: the view after remove_prefix.
advance(substring, p) ==
  IF p.is_valid THEN remove_prefix(substring, p.placeholder_length)
  ELSE remove_prefix(substring, 1)

\* The result after std::ranges::move(new_type_matcher, back_inserter).
collect(result, p) ==
  IF p.is_valid THEN result \o p.type_matchers ELSE result

\* Mutant: surplus matchers are tolerated.
verify_at_most(matchers, number_of_arguments) ==
  number_of_arguments <= Len(matchers)

\* The static_assert of verify_format_with_arguments: sizeof...(T) against
\* the size of the scan result.
verify_format_with_arguments(matchers, number_of_arguments) ==
  number_of_arguments = Len(matchers)

\* ------------------------------------------------------------------ inputs

\* Longest format string of the exhaustive family.
MaxLen == 4

\* Largest number of call-site arguments tried.
MaxArgs == 4

\* The characters of the exhaustive family: the start character, a flag, a
\* digit, the star, the precision point, a length modifier, a specifier.
Alphabet == {"%", "-", "5", "*", ".", "l", "d"}

Flags == {"+", "-", " ", "#", "0"}

SpecifierSet == {Specifier[i] : i \in 1..Len(Specifier)}

Modifiers ==
  {<<>>, <<"h", "h">>, <<"l", "l">>, <<"l">>, <<"L">>, <<"h">>, <<"j">>,
   <<"z">>, <<"t">>}

\* Every string over Alphabet of length at most MaxLen.
ShortFormats == UNION {[1..n -> Alphabet] : n \in 0..MaxLen}

\* "%", a length modifier, then any specifier or a character that is none.
LengthFormats ==
  {<<"%">> \o m \o <<c>> : m \in Modifiers, c \in SpecifierSet \cup {"q"}}

\* "%", two flag characters, then a width and a specifier or a specifier.
FlagFormats ==
  {<<"%", f1, f2>> \o t :
     f1 \in Flags, f2 \in Flags, t \in {<<"5", "d">>, <<"d">>, <<"x">>}}

\* "%", a width, a precision and a last character, then literal text or
\* another placeholder.
StarFormats ==
  {<<"%">> \o w \o p \o <<c>> \o t :
     w \in {<<>>, <<"*">>, <<"5">>, <<"1", "0">>},
     p \in {<<>>, <<".">>, <<".", "*">>, <<".", "5">>},
     c \in {"f", "s", "q", "%"},
     t \in {<<>>, <<"d">>, <<"%", "%">>}}

\* Literal text before each of StarFormats.
TextFormats == {<<"q">> \o f : f \in StarFormats}

\* The format strings the specification names, and some more.
NamedFormats ==
  {<<"1", "0", "0", "%", " ", "s", "u", "r", "e", " ", "%", "d">>,
   <<"H", "e", "l", "l", "o", " ", "%", "s", ",", " ", "y", "o", "u", " ",
     "a", "r", "e", " ", "%", "d", " ", "y", "e", "a", "r", "s", " ", "o",
     "l", "d">>,
   <<"%", "%", "%", "%", "d">>,
   <<"%", "d", " ", "%", "d">>,
   <<"%", "-", "+", "0", "5", "d">>,
   <<"%", "/", "d">>, <<"%", ":", "d">>, <<"%", "9", "d">>}

Formats ==
  ShortFormats \cup LengthFormats \cup FlagFormats \cup StarFormats
    \cup TextFormats \cup NamedFormats

\* What a read of the character past the end of the format can produce: the
\* terminator of a literal, any other byte, or no value at all. The byte
\* there does not change while one call of the parser runs, so one outcome
\* is drawn for each call.
PastEnd == Chars \cup {NUL, Fault}

\* ------------------------------------------------------------------- state

VARIABLES
  format,      \* the argument of parse_format_to_placeholder_matchers
  substring,   \* the remaining view
  result,      \* the matchers collected so far
  pc,          \* "start", "loop", "done" (returned) or "fault"
  iterations,  \* passes of the while loop completed
  last,        \* what the latest pass of the loop did
  verdict      \* "unchecked", or the static_assert: "accepted", "rejected"

vars == <<format, substring, result, pc, iterations, last, verdict>>

NoPass ==
  [attempted |-> FALSE, view |-> <<>>, is_valid |-> FALSE,
   type_matchers |-> <<>>, placeholder_length |-> 0, past_end |-> FALSE,
   fault |-> FALSE, removed |-> 0, skipped |-> 0, result_before |-> <<>>,
   number_of_arguments |-> 0]

Init ==
  /\ format \in Formats
  /\ substring = <<>>
  /\ result = <<>>
  /\ pc = "start"
  /\ iterations = 0
  /\ last = NoPass
  /\ verdict = "unchecked"

\* Lines 285-287: the empty result and the first skip of an escape.
Begin ==
  /\ pc = "start"
  /\ substring' = skip_escaped_starting_character(format)
  /\ result' = <<>>
  /\ pc' = "loop"
  /\ last' = [NoPass EXCEPT !.skipped = Len(format) - Len(substring')]
  /\ UNCHANGED <<format, iterations, verdict>>

\* Lines 288-296: one pass of the loop in which the parser returns.
Iterate ==
  /\ pc = "loop"
  /\ substring # <<>>
  /\ \E pe \in PastEnd :
       \E p \in {parse_first_placeholder(substring, pe)} :
         \E advanced \in {advance(substring, p)} :
           /\ ~p.fault
           /\ substring' = skip_escaped_starting_character(advanced)
           /\ result' = collect(result, p)
           /\ last' = [attempted |-> TRUE, view |-> substring,
                       is_valid |-> p.is_valid,
                       type_matchers |-> p.type_matchers,
                       placeholder_length |-> p.placeholder_length,
                       past_end |-> p.past_end, fault |-> FALSE,
                       removed |-> Len(substring) - Len(advanced),
                       skipped |-> Len(advanced) - Len(substring'),
                       result_before |-> result,
                       number_of_arguments |-> 0]
  /\ iterations' = iterations + 1
  /\ UNCHANGED <<format, pc, verdict>>

\* Lines 288-289: a pass in which the read past the end of the view faults.
IterateFault ==
  /\ pc = "loop"
  /\ substring # <<>>
  /\ \E pe \in PastEnd :
       \E p \in {parse_first_placeholder(substring, pe)} :
         /\ p.fault
         /\ last' = [NoPass EXCEPT !.attempted = TRUE, !.view = substring,
                                   !.past_end = TRUE, !.fault = TRUE,
                                   !.result_before = result]
  /\ pc' = "fault"
  /\ UNCHANGED <<format, substring, result, iterations, verdict>>

\* Lines 288 and 298: the view is empty, the result is returned.
Return ==
  /\ pc = "loop"
  /\ substring = <<>>
  /\ pc' = "done"
  /\ UNCHANGED <<format, substring, result, iterations, last, verdict>>

\* Lines 301-305: the static_assert for a call with some number of arguments.
Verify ==
  /\ pc = "done"
  /\ verdict = "unchecked"
  /\ \E number_of_arguments \in 0..MaxArgs :
       /\ verdict' =
            IF verify_format_with_arguments(result, number_of_arguments)
            THEN "accepted" ELSE "rejected"
       /\ last' = [last EXCEPT !.number_of_arguments = number_of_arguments]
  /\ UNCHANGED <<format, substring, result, pc, iterations>>

Next == Begin \/ Iterate \/ IterateFault \/ Return \/ Verify

Spec == Init /\ [][Next]_vars

\* ----------------------------------------- the grammar, as the claims state it

Digits == {"0", "1", "2", "3", "4", "5", "6", "7", "8", "9"}

NoChar == "none"

\* The character of v at index i, if there is one.
At(v, i) == IF i >= 1 /\ i <= Len(v) THEN v[i] ELSE NoChar

\* The index after the run of decimal digits of v that starts at i.
RECURSIVE DigitsEnd(_, _)
DigitsEnd(v, i) ==
  IF At(v, i) \in Digits THEN DigitsEnd(v, i + 1) ELSE i

\* For a view v that starts with "%": the index after the optional flag,
\* after the width, and after the precision.
FlagEnd(v) == IF At(v, 2) \in Flags THEN 3 ELSE 2

WidthEnd(v) ==
  IF At(v, FlagEnd(v)) = "*" THEN FlagEnd(v) + 1
  ELSE DigitsEnd(v, FlagEnd(v))

PrecisionEnd(v) ==
  IF At(v, WidthEnd(v)) # "." THEN WidthEnd(v)
  ELSE IF At(v, WidthEnd(v) + 1) = "*" THEN WidthEnd(v) + 2
  ELSE DigitsEnd(v, WidthEnd(v) + 1)

\* The length-modifier class at index i of v, longest first.
ModifierClassAt(v, i) ==
  IF At(v, i) = "h" /\ At(v, i + 1) = "h" THEN "hh"
  ELSE IF At(v, i) = "l" /\ At(v, i + 1) = "l" THEN "ll"
  ELSE IF At(v, i) = "l" THEN "l"
  ELSE IF At(v, i) = "L" THEN "L"
  ELSE IF At(v, i) \in {"h", "j", "z", "t"} THEN "other"
  ELSE "none"

ModifierClass(v) == ModifierClassAt(v, PrecisionEnd(v))

ModifierLength(class) ==
  IF class \in {"hh", "ll"} THEN 2 ELSE IF class = "none" THEN 0 ELSE 1

\* The index of the character right after the length modifier.
SpecifierIndex(v) == PrecisionEnd(v) + ModifierLength(ModifierClass(v))

\* The specifiers allowed after each length-modifier class.
AllowedAfter(class) ==
  IF class \in {"hh", "ll", "other"}
  THEN {"d", "i", "u", "o", "x", "X", "n"}
  ELSE IF class = "l" THEN {"d", "i", "u", "o", "x", "X", "c", "s", "n"}
  ELSE IF class = "L" THEN {"f", "F", "e", "E", "g", "G", "a", "A"}
  ELSE {"d", "i", "u", "o", "x", "X", "f", "F", "e", "E", "g", "G", "a",
        "A", "c", "s", "p", "n"}

\* The matcher category of each specifier.
CategoryOf(c) ==
  IF c \in {"d", "i"} THEN "SignedInt"
  ELSE IF c \in {"u", "o", "x", "X"} THEN "UnsignedInt"
  ELSE IF c \in {"f", "F", "e", "E", "g", "G", "a", "A"} THEN "Floating"
  ELSE IF c = "c" THEN "Char"
  ELSE IF c = "s" THEN "String"
  ELSE IF c = "p" THEN "Pointer"
  ELSE "Unconstrained"

\* The matchers an accepted placeholder text t stands for: one UnsignedInt
\* for a "*" width, one for a ".*" precision, then the specifier's.
HasStarWidth(t) == \E i \in 2..Len(t) : t[i] = "*" /\ t[i - 1] # "."

HasStarPrecision(t) == \E i \in 2..Len(t) : t[i] = "*" /\ t[i - 1] = "."

ExpectedMatchers(t) ==
  (IF HasStarWidth(t) THEN <<"UnsignedInt">> ELSE <<>>)
    \o (IF HasStarPrecision(t) THEN <<"UnsignedInt">> ELSE <<>>)
    \o <<CategoryOf(t[Len(t)])>>

\* The latest pass of the loop ran the parser on a view that starts with "%"
\* and the parser returned.
ParsedPercent ==
  last.attempted /\ ~last.fault /\ At(last.view, 1) = "%"

\* The text the latest pass accepted as a placeholder.
AcceptedText == SubSeq(last.view, 1, last.placeholder_length)

Escape == <<"%", "%">>

\* ------------------------------------------------------------------ claims

\* What C1 says of one pass of the loop: a failed parse removes exactly one
\* character, a successful one its placeholder_length, at least 2; two more
\* go exactly when the rest starts with the escape; nothing is removed that
\* the view does not hold.
PassMakesProgress ==
  last.attempted /\ ~last.fault =>
    /\ last.is_valid =>
         last.removed = last.placeholder_length /\ last.removed >= 2
    /\ ~last.is_valid => last.removed = 1
    /\ last.placeholder_length <= Len(last.view)
    /\ last.skipped =
         (IF starts_with(remove_prefix(last.view, last.removed), Escape)
          THEN 2 ELSE 0)
    /\ last.removed + last.skipped <= Len(last.view)
    /\ Len(substring) = Len(last.view) - last.removed - last.skipped

\* C1: for every format string the scan terminates within length(format)
\* passes of the loop: every pass is counted, shortens the view by at least
\* one character and never by more than the view holds, and the passes
\* taken plus the characters left never exceed length(format).
C1_ScanTerminates ==
  /\ [](iterations <= Len(format))
  /\ [](pc = "loop" => iterations + Len(substring) <= Len(format))
  /\ [](pc = "done" => substring = <<>>)
  /\ []PassMakesProgress
  /\ [][pc = "loop" /\ pc' = "loop" =>
          /\ iterations' = iterations + 1
          /\ Len(substring') < Len(substring)]_vars

C1_Witness ==
  /\ pc = "done"
  /\ iterations >= 2
  /\ last.is_valid
  /\ last.result_before = <<>>
  /\ last.skipped = 2

\* C2: no step of the scan inspects a character at or beyond the end of the
\* format string: no consumer is applied to an empty view.
C2_NoReadPastEnd == ~last.past_end

\* The view ends before a specifier is reached: "%", then at most a flag, a
\* width, a precision and a length modifier.
Truncated(v) == At(v, 1) = "%" /\ SpecifierIndex(v) > Len(v)

\* C3: on a view that ends before a specifier is reached the parser returns
\* normally with is_valid = false, no matcher and length 0; no fault
\* propagates, the scan completes, and scan("%") = [].
C3_TruncatedIsInvalid ==
  /\ last.attempted /\ Truncated(last.view) =>
       /\ ~last.fault
       /\ ~last.is_valid
       /\ last.type_matchers = <<>>
       /\ last.placeholder_length = 0
  /\ format = <<"%">> => pc # "fault"
  /\ format = <<"%">> /\ pc = "done" => result = <<>>

\* C4: wherever the remaining view starts with the escape "%%" the scanner
\* skips it without running the placeholder parser on it, also for several
\* escapes in a row: scan("%%%%d") = [].
C4_EscapeNeverParsed ==
  /\ last.attempted => ~starts_with(last.view, Escape)
  /\ format = <<"%", "%", "%", "%", "d">> /\ pc = "done" => result = <<>>

HundredPercentSure ==
  <<"1", "0", "0", "%", " ", "s", "u", "r", "e", " ", "%", "d">>

\* C5, as stated: scan("100% sure %d") = [SignedInt].
C5_LiteralPercentSkipped ==
  format = HundredPercentSure /\ pc = "done" => result = <<"SignedInt">>

\* C5, amended: scan("100% sure %d") = [String, SignedInt]: "% s" is a
\* placeholder, the space being a flag.
C5_SpaceFlagPlaceholder ==
  format = HundredPercentSure /\ pc = "done" =>
    result = <<"String", "SignedInt">>

C5_Witness ==
  /\ format = HundredPercentSure
  /\ pc = "done"
  /\ Len(result) = 2

HelloFormat ==
  <<"H", "e", "l", "l", "o", " ", "%", "s", ",", " ", "y", "o", "u", " ",
    "a", "r", "e", " ", "%", "d", " ", "y", "e", "a", "r", "s", " ", "o",
    "l", "d">>

\* C6: the scan result is the concatenation, left to right, of the matchers
\* of the accepted placeholders; each contributes UnsignedInt for a "*"
\* width, UnsignedInt for a ".*" precision, then the matcher of its
\* specifier, and a digit run contributes nothing.
C6_MatchersInArgumentOrder ==
  /\ ~last.attempted => result = <<>>
  /\ last.attempted /\ ~last.fault /\ last.is_valid =>
       /\ last.type_matchers = ExpectedMatchers(AcceptedText)
       /\ result = last.result_before \o ExpectedMatchers(AcceptedText)
  /\ last.attempted /\ ~last.is_valid => result = last.result_before
  /\ format = <<"%", "*", ".", "*", "f">> /\ pc = "done" =>
       result = <<"UnsignedInt", "UnsignedInt", "Floating">>
  /\ format = HelloFormat /\ pc = "done" =>
       result = <<"String", "SignedInt">>

C6_Witness ==
  /\ format = <<"%", "*", ".", "*", "f">>
  /\ pc = "done"
  /\ last.is_valid
  /\ Len(result) = 3

\* C7: the length modifier is matched longest first and the placeholder is
\* valid exactly when the character right after it is in the set allowed
\* after that modifier; scan("%ld") = [SignedInt], scan("%Lf") = [Floating],
\* scan("%Ld") = [].
C7_LengthModifierTable ==
  /\ ParsedPercent =>
       (last.is_valid <=>
          At(last.view, SpecifierIndex(last.view))
            \in AllowedAfter(ModifierClass(last.view)))
  /\ ParsedPercent /\ last.is_valid =>
       last.placeholder_length = SpecifierIndex(last.view)
  /\ format = <<"%", "l", "d">> /\ pc = "done" => result = <<"SignedInt">>
  /\ format = <<"%", "L", "f">> /\ pc = "done" => result = <<"Floating">>
  /\ format = <<"%", "L", "d">> /\ pc = "done" => result = <<>>

C7_Witness ==
  /\ ParsedPercent
  /\ ModifierClass(last.view) = "ll"
  /\ last.is_valid

\* The specifier stage is reached and fails: the character right after the
\* length modifier exists and is not allowed there.
SpecifierFails(v) ==
  /\ SpecifierIndex(v) <= Len(v)
  /\ At(v, SpecifierIndex(v)) \notin AllowedAfter(ModifierClass(v))

\* C8: when the specifier stage fails on a view that starts with "%", the
\* parser returns is_valid = false, no matcher and length 0, also after a
\* "*" width or ".*" precision; the scanner advances by exactly one
\* character, so a later "%" of the rejected text can start a placeholder.
C8_RejectedPlaceholderLeavesNothing ==
  /\ ParsedPercent /\ SpecifierFails(last.view) =>
       /\ ~last.is_valid
       /\ last.type_matchers = <<>>
       /\ last.placeholder_length = 0
       /\ last.removed = 1
       /\ result = last.result_before
  /\ format = <<"%", "*", "%", "d">> /\ pc = "done" =>
       result = <<"SignedInt">>

C8_Witness ==
  /\ ParsedPercent
  /\ SpecifierFails(last.view)
  /\ HasStarPrecision(SubSeq(last.view, 1, SpecifierIndex(last.view)))
  /\ result = <<>>

\* C9: the call is accepted exactly when the number of arguments equals the
\* number of matchers of the scan result; "%d %d" with 1 argument fails and
\* with 2 succeeds.
C9_ArgumentCount ==
  /\ verdict # "unchecked" =>
       (verdict = "accepted" <=> last.number_of_arguments = Len(result))
  /\ format = <<"%", "d", " ", "%", "d">> /\ verdict # "unchecked" =>
       /\ last.number_of_arguments = 1 => verdict = "rejected"
       /\ last.number_of_arguments = 2 => verdict = "accepted"

C9_Witness ==
  /\ format = <<"%", "d", " ", "%", "d">>
  /\ verdict = "rejected"
  /\ last.number_of_arguments = 3

\* C10: the flags stage removes at most one flag character, once: a "%"
\* followed by two flag characters whose second is not "0" is no valid
\* placeholder and contributes nothing, while a second "0" is taken by the
\* width and the placeholder stays valid.
C10_SingleFlag ==
  /\ ParsedPercent /\ At(last.view, 2) \in Flags
       /\ At(last.view, 3) \in Flags \ {"0"} =>
         /\ ~last.is_valid
         /\ last.type_matchers = <<>>
         /\ result = last.result_before
  /\ ParsedPercent /\ At(last.view, 2) \in Flags
       /\ At(last.view, 3) = "0" /\ At(last.view, 4) = "5"
       /\ At(last.view, 5) = "d" =>
         /\ last.is_valid
         /\ last.type_matchers = <<"SignedInt">>
         /\ last.placeholder_length = 5

C10_Witness ==
  /\ ParsedPercent
  /\ last.view = <<"%", "-", "+", "5", "d">>
  /\ ~last.is_valid

=============================================================================
